---- MODULE Spec2Model ----
(***************************************************************************)
(* RingCode: the frame codec (encodeText / tryDecodeLinear) and the        *)
(* hypothesis search of decodeRingCodeFromImage.                           *)
(*                                                                         *)
(* Bit sequences and byte arrays are 1-based sequences here; index k of    *)
(* the source is index k+1 of the model.  A JavaScript string is the       *)
(* sequence of its UTF-16 code units.  A value that is used more than once *)
(* is passed as an operator argument rather than named by LET, because the *)
(* model checker evaluates an argument once and a LET name at every use.   *)
(***************************************************************************)
EXTENDS Integers, Sequences, FiniteSets, TLC

(***************************************************************************)
(* Bounds of the model.                                                    *)
(***************************************************************************)
\* longest run of the fill character appended to a text
MaxFill == 150

(***************************************************************************)
(* Layout constants (ringcode.ts).                                         *)
(***************************************************************************)
SECTORS == <<128, 192, 256, 256, 256, 256>>

START_PATTERN_BITS == [k \in 1..32 |-> IF k % 2 = 1 THEN 1 ELSE 0]

HEADER_BYTES == 7

HEADER_BITS == HEADER_BYTES * 8

VERSION == 3

\* s[lo] + ... + s[hi], summed by halves to keep the evaluation shallow
RECURSIVE SumRange(_, _, _)
SumRange(s, lo, hi) ==
  IF lo > hi THEN 0
  ELSE IF lo = hi THEN s[lo]
  ELSE LET mid == (lo + hi) \div 2
       IN  SumRange(s, lo, mid) + SumRange(s, mid + 1, hi)

SumSeq(s) == SumRange(s, 1, Len(s))

\* ringcode.ts, the encoder's capacity functions
capacityBits == SumSeq(SECTORS)

capacityDataBits == capacityBits - Len(START_PATTERN_BITS) - HEADER_BITS

\* ringcode-decoder, the decoder's own copies
decCapacityBits == SumSeq(SECTORS)

\* variant: the start pattern is not subtracted
decCapacityDataBitsNoStart == decCapacityBits - HEADER_BITS

decCapacityDataBits == decCapacityBits - Len(START_PATTERN_BITS) - HEADER_BITS

(***************************************************************************)
(* Integer helpers for the JavaScript bit operators.                       *)
(***************************************************************************)
Pow2(n) == 2 ^ n

\* a ^ b on non-negative integers
RECURSIVE Xor(_, _)
Xor(a, b) ==
  IF a = 0 THEN b
  ELSE IF b = 0 THEN a
  ELSE (((a % 2) + (b % 2)) % 2) + 2 * Xor(a \div 2, b \div 2)

\* a | b on non-negative integers
RECURSIVE BitOr(_, _)
BitOr(a, b) ==
  IF a = 0 THEN b
  ELSE IF b = 0 THEN a
  ELSE (IF a % 2 = 1 \/ b % 2 = 1 THEN 1 ELSE 0) + 2 * BitOr(a \div 2, b \div 2)

(***************************************************************************)
(* TextEncoder.encode: UTF-16 code units to UTF-8 bytes.  A surrogate pair *)
(* is one code point; a lone surrogate is encoded as U+FFFD.               *)
(***************************************************************************)
IsHighSurrogate(u) == u >= 55296 /\ u <= 56319

IsLowSurrogate(u) == u >= 56320 /\ u <= 57343

Utf8OfCodePoint(cp) ==
  IF cp < 128 THEN <<cp>>
  ELSE IF cp < 2048 THEN <<192 + (cp \div 64), 128 + (cp % 64)>>
  ELSE IF cp < 65536 THEN
    <<224 + (cp \div 4096), 128 + ((cp \div 64) % 64), 128 + (cp % 64)>>
  ELSE <<240 + (cp \div 262144), 128 + ((cp \div 4096) % 64),
         128 + ((cp \div 64) % 64), 128 + (cp % 64)>>

\* ss[lo] \o ... \o ss[hi], joined by halves
RECURSIVE ConcatRange(_, _, _)
ConcatRange(ss, lo, hi) ==
  IF lo > hi THEN <<>>
  ELSE IF lo = hi THEN ss[lo]
  ELSE LET mid == (lo + hi) \div 2
       IN  ConcatRange(ss, lo, mid) \o ConcatRange(ss, mid + 1, hi)

\* the bytes contributed by code unit k: a high surrogate followed by a low
\* one carries the pair, the low one that follows it carries nothing
UnitBytes(t, k) ==
  IF IsHighSurrogate(t[k]) /\ k < Len(t) /\ IsLowSurrogate(t[k + 1]) THEN
    Utf8OfCodePoint(65536 + (t[k] - 55296) * 1024 + (t[k + 1] - 56320))
  ELSE IF IsLowSurrogate(t[k]) /\ k > 1 /\ IsHighSurrogate(t[k - 1]) THEN <<>>
  ELSE IF IsHighSurrogate(t[k]) \/ IsLowSurrogate(t[k]) THEN
    Utf8OfCodePoint(65533)
  ELSE Utf8OfCodePoint(t[k])

TextEncode(t) == ConcatRange([k \in 1..Len(t) |-> UnitBytes(t, k)], 1, Len(t))

(***************************************************************************)
(* Encoder (ringcode.ts).                                                  *)
(***************************************************************************)
\* variant: least significant bit first
bytesToBitsLsbFirst(bytes) ==
  [k \in 1..(8 * Len(bytes)) |->
     (bytes[(k - 1) \div 8 + 1] \div Pow2((k - 1) % 8)) % 2]

\* for (const byte of bytes) for (i = 7..0) bits.push((byte >> i) & 1)
bytesToBits(bytes) ==
  [k \in 1..(8 * Len(bytes)) |->
     (bytes[(k - 1) \div 8 + 1] \div Pow2(7 - ((k - 1) % 8))) % 2]

\* bytes.reduce((a, b) => a + b, 0) & 0xFF
checksum8(bytes) == SumSeq(bytes) % 256

\* sum ^= data[j] * mult for j = lo..hi, folded by halves (^ is associative)
RECURSIVE XorFold(_, _, _, _)
XorFold(data, mult, lo, hi) ==
  IF lo > hi THEN 0
  ELSE IF lo = hi THEN data[lo] * mult
  ELSE LET mid == (lo + hi) \div 2
       IN  Xor(XorFold(data, mult, lo, mid), XorFold(data, mult, mid + 1, hi))

simpleRS(data, eccBytes) ==
  data \o [i \in 1..eccBytes |-> XorFold(data, i, 1, Len(data)) % 256]

eccMap == [l \in 0..3 |-> Pow2(l + 3)]

\* eccMap[eccLevel] || 32
EccBytesOf(lvl) == IF lvl \in DOMAIN eccMap THEN eccMap[lvl] ELSE 32

MaxPayloadBytes(lvl) == (capacityDataBits - EccBytesOf(lvl) * 8) \div 8

\* new Uint8Array(maxPayloadBytes); payload.set(textBytes)
PadPayload(tb, n) == [j \in 1..n |-> IF j <= Len(tb) THEN tb[j] ELSE 0]

\* variant: the payload length is written low byte first
BuildHeaderLittleEndian(len, lvl, eccBytes) ==
  LET h6 == <<VERSION, lvl % 256, len % 256, (len \div 256) % 256,
              (eccBytes \div 256) % 256, eccBytes % 256>>
  IN  h6 \o <<checksum8(h6)>>

BuildHeader(len, lvl, eccBytes) ==
  LET h6 == <<VERSION, lvl % 256, (len \div 256) % 256, len % 256,
              (eccBytes \div 256) % 256, eccBytes % 256>>
  IN  h6 \o <<checksum8(h6)>>

\* while (allBits.length < capacityBits()) allBits.push(0);
\* allBits.slice(0, capacityBits())
PadTo(raw, n) == [k \in 1..n |-> IF k <= Len(raw) THEN raw[k] ELSE 0]

\* [...START_PATTERN_BITS, ...header bits, ...codeword bits], zero padded
\* and cut to the capacity
AssembleBits(hdr, enc) ==
  PadTo(START_PATTERN_BITS \o bytesToBits(hdr) \o bytesToBits(enc),
        capacityBits)

\* variant: the limit itself is refused (>= for >)
EncodeThrowsAtLimit(t, lvl) == Len(TextEncode(t)) >= MaxPayloadBytes(lvl)

\* if (textBytes.length > maxPayloadBytes) throw new Error("Text too long")
EncodeThrows(t, lvl) == Len(TextEncode(t)) > MaxPayloadBytes(lvl)

(***************************************************************************)
(* Decoder (ringcode-decoder).                                             *)
(***************************************************************************)
None == [kind |-> "none"]

\* b = (b << 1) | bit, eight bits per byte, missing bits read as 0
bitsToBytes(bits) ==
  [j \in 1..((Len(bits) + 7) \div 8) |->
     LET bitAt(k) == IF 8 * (j - 1) + k <= Len(bits)
                     THEN bits[8 * (j - 1) + k] ELSE 0
     IN  bitAt(1) * 128 + bitAt(2) * 64 + bitAt(3) * 32 + bitAt(4) * 16
         + bitAt(5) * 8 + bitAt(6) * 4 + bitAt(7) * 2 + bitAt(8)]

\* variant: the sum is masked with 0x7F
decChecksum7(bb) == SumSeq(bb) % 128

\* for (const byte of bb) sum += byte; return sum & 0xFF
decChecksum8(bb) == SumSeq(bb) % 256

CountEq(data, v) == Cardinality({j \in 1..Len(data) : data[j] = v})

\* variant: only the zero bytes are counted
LooksReasonableZerosOnly(data) ==
  IF 5 * CountEq(data, 0) > 4 * Len(data) THEN None
  ELSE [kind |-> "data", data |-> data]

\* zeros > dataLen * 0.8 || ones > dataLen * 0.8: dataLen * 0.8 is exact in
\* binary64 whenever it is a whole number (dataLen <= 157), so the tests are
\* 5 * zeros > 4 * dataLen and 5 * ones > 4 * dataLen
LooksReasonable(data) ==
  IF 5 * CountEq(data, 0) > 4 * Len(data)
       \/ 5 * CountEq(data, 255) > 4 * Len(data)
  THEN None
  ELSE [kind |-> "data", data |-> data]

\* variant: checkXor is compared with the first redundancy byte
rsDecodeSimpleParity(codeword, eccLen) ==
  IF Len(codeword) - eccLen <= 0 \/ Len(codeword) < eccLen THEN None
  ELSE IF eccLen > 0
          /\ XorFold(SubSeq(codeword, 1, Len(codeword) - eccLen), 1, 1,
                     Len(codeword) - eccLen)
               # codeword[Len(codeword) - eccLen + 1]
  THEN None
  ELSE LooksReasonable(SubSeq(codeword, 1, Len(codeword) - eccLen))

rsDecodeSimple(codeword, eccLen) ==
  IF Len(codeword) - eccLen <= 0 \/ Len(codeword) < eccLen THEN None
  ELSE LooksReasonable(SubSeq(codeword, 1, Len(codeword) - eccLen))

(***************************************************************************)
(* new TextDecoder('utf-8', { fatal: false }).decode: the WHATWG UTF-8     *)
(* decoder.  An ill-formed sequence yields U+FFFD and the offending byte   *)
(* is read again; a leading byte order mark is dropped; a code point above *)
(* U+FFFF becomes a surrogate pair.                                        *)
(*                                                                         *)
(* The decoder is between sequences whenever it reads a byte outside       *)
(* 80..BF, and a sequence has at most three continuation bytes, so what    *)
(* each byte contributes is decided by its three neighbours on either      *)
(* side; the output is the concatenation of the contributions.             *)
(***************************************************************************)
Utf16OfCodePoint(cp) ==
  IF cp < 65536 THEN <<cp>>
  ELSE <<55296 + ((cp - 65536) \div 1024), 56320 + ((cp - 65536) % 1024)>>

IsContinuation(x) == x >= 128 /\ x <= 191

\* bytes needed after a lead byte (0: not a lead byte)
BytesNeeded(x) ==
  IF x >= 194 /\ x <= 223 THEN 1
  ELSE IF x >= 224 /\ x <= 239 THEN 2
  ELSE IF x >= 240 /\ x <= 244 THEN 3
  ELSE 0

\* lower and upper boundary of the first continuation byte
LowerBoundary(x) == IF x = 224 THEN 160 ELSE IF x = 240 THEN 144 ELSE 128

UpperBoundary(x) == IF x = 237 THEN 159 ELSE IF x = 244 THEN 143 ELSE 191

\* the first byte after lead byte b[p] is present and inside its boundaries
FirstFits(b, p) ==
  p < Len(b) /\ b[p + 1] >= LowerBoundary(b[p]) /\ b[p + 1] <= UpperBoundary(b[p])

\* the lead byte b[p] is followed by all the bytes it needs
SequenceComplete(b, p) ==
  /\ FirstFits(b, p)
  /\ \A d \in 2..BytesNeeded(b[p]) : p + d <= Len(b) /\ IsContinuation(b[p + d])

LeadBits(x) ==
  IF BytesNeeded(x) = 1 THEN x % 32 ELSE IF BytesNeeded(x) = 2 THEN x % 16
  ELSE x % 8

SequenceCodePoint(b, p) ==
  LET n == BytesNeeded(b[p])
  IN  IF n = 1 THEN LeadBits(b[p]) * 64 + (b[p + 1] % 64)
      ELSE IF n = 2 THEN
        LeadBits(b[p]) * 4096 + (b[p + 1] % 64) * 64 + (b[p + 2] % 64)
      ELSE LeadBits(b[p]) * 262144 + (b[p + 1] % 64) * 4096
             + (b[p + 2] % 64) * 64 + (b[p + 3] % 64)

\* distance from continuation byte b[k] back to the nearest byte outside
\* 80..BF, 0 when there is none within three bytes
LeadDistance(b, k) ==
  IF k > 1 /\ ~IsContinuation(b[k - 1]) THEN 1
  ELSE IF k > 2 /\ ~IsContinuation(b[k - 2]) THEN 2
  ELSE IF k > 3 /\ ~IsContinuation(b[k - 3]) THEN 3
  ELSE 0

\* the code units the decoder emits on account of byte k
DecodedAt(b, k) ==
  IF b[k] < 128 THEN <<b[k]>>
  ELSE IF IsContinuation(b[k]) THEN
    LET d == LeadDistance(b, k)
    IN  IF d = 0 THEN <<65533>>
        ELSE IF d <= BytesNeeded(b[k - d]) /\ FirstFits(b, k - d) THEN <<>>
        ELSE <<65533>>
  ELSE IF BytesNeeded(b[k]) = 0 THEN <<65533>>
  ELSE IF SequenceComplete(b, k) THEN Utf16OfCodePoint(SequenceCodePoint(b, k))
  ELSE <<65533>>

DecodeBytes(b) == ConcatRange([k \in 1..Len(b) |-> DecodedAt(b, k)], 1, Len(b))

TextDecode(bytes) ==
  IF Len(bytes) >= 3 /\ bytes[1] = 239 /\ bytes[2] = 187 /\ bytes[3] = 191
  THEN DecodeBytes(SubSeq(bytes, 4, Len(bytes)))
  ELSE DecodeBytes(bytes)

\* the fields tryDecodeLinear reads from the seven header bytes
HeaderFields(hdr) ==
  [hdr         |-> hdr,
   version     |-> hdr[1],
   eccLevel    |-> hdr[2],
   payloadLen  |-> BitOr(hdr[3] * 256, hdr[4]),
   eccLen      |-> BitOr(hdr[5] * 256, hdr[6]),
   checksumVal |-> hdr[7]]

\* hdr = bitsToBytes(linear.slice(i, i + HEADER_BITS)) and its fields
ParseHeader(linear) ==
  HeaderFields(bitsToBytes(SubSeq(linear, Len(START_PATTERN_BITS) + 1,
                                  Len(START_PATTERN_BITS) + HEADER_BITS)))

\* the codeword tryDecodeLinear cuts out of the stream
ExtractCodeword(linear, payloadLen, eccLen) ==
  bitsToBytes(SubSeq(linear, Len(START_PATTERN_BITS) + HEADER_BITS + 1,
                     Len(START_PATTERN_BITS) + HEADER_BITS
                       + (payloadLen + eccLen) * 8))

\* the try block after rsDecodeSimple: null, or the text of the first
\* payloadLen bytes
TextOf(decodedData, payloadLen) ==
  IF decodedData.kind = "none" THEN None
  ELSE [kind |-> "text",
        text |-> TextDecode(SubSeq(decodedData.data, 1, payloadLen))]

\* variant: the header checksum is not compared
DecodeFrameNoChecksum(linear, h) ==
  IF Len(h.hdr) # 7 THEN None
  ELSE IF h.payloadLen <= 0 THEN None
  ELSE IF h.payloadLen + h.eccLen > decCapacityDataBits \div 8 THEN None
  ELSE IF Len(START_PATTERN_BITS) + HEADER_BITS
            + (h.payloadLen + h.eccLen) * 8 > Len(linear) THEN None
  ELSE TextOf(rsDecodeSimple(ExtractCodeword(linear, h.payloadLen, h.eccLen),
                             h.eccLen),
              h.payloadLen)

\* tryDecodeLinear from the header checks on, h the parsed header
DecodeFrame(linear, h) ==
  IF Len(h.hdr) # 7 THEN None
  ELSE IF decChecksum8(SubSeq(h.hdr, 1, 6)) # h.checksumVal THEN None
  ELSE IF h.payloadLen <= 0 THEN None
  ELSE IF h.payloadLen + h.eccLen > decCapacityDataBits \div 8 THEN None
  ELSE IF Len(START_PATTERN_BITS) + HEADER_BITS
            + (h.payloadLen + h.eccLen) * 8 > Len(linear) THEN None
  ELSE TextOf(rsDecodeSimple(ExtractCodeword(linear, h.payloadLen, h.eccLen),
                             h.eccLen),
              h.payloadLen)

\* variant: a stream that does not begin with the start pattern is rejected
tryDecodeLinearStartChecked(linear) ==
  IF Len(linear) < Len(START_PATTERN_BITS) + HEADER_BITS THEN None
  ELSE IF SubSeq(linear, 1, Len(START_PATTERN_BITS)) # START_PATTERN_BITS
  THEN None
  ELSE DecodeFrame(linear, ParseHeader(linear))

tryDecodeLinear(linear) ==
  IF Len(linear) < Len(START_PATTERN_BITS) + HEADER_BITS THEN None
  ELSE DecodeFrame(linear, ParseHeader(linear))

(***************************************************************************)
(* Rendering and the pixel buffer.                                         *)
(*                                                                         *)
(* The raster is kept at the granularity the codec works at: which sectors *)
(* of which ring carry the foreground colour, the two colours, and the     *)
(* rotation of the photograph against the rendering, in sectors of the     *)
(* first ring.  Every pixel of a sector has the sector's colour (noiseless *)
(* rendering), and the background colour is always present (quiet zone).   *)
(***************************************************************************)
STYLES ==
  [classic  |-> [bg |-> <<255, 255, 255>>, fg |-> <<0, 0, 0>>],
   cyber    |-> [bg |-> <<8, 16, 32>>,     fg |-> <<0, 220, 255>>],
   solar    |-> [bg |-> <<255, 235, 180>>, fg |-> <<180, 120, 0>>],
   noir     |-> [bg |-> <<32, 32, 32>>,    fg |-> <<190, 30, 30>>],
   seal     |-> [bg |-> <<242, 230, 205>>, fg |-> <<150, 20, 20>>],
   ocean    |-> [bg |-> <<20, 140, 200>>,  fg |-> <<50, 20, 80>>],
   neon     |-> [bg |-> <<15, 25, 20>>,    fg |-> <<0, 255, 180>>],
   forest   |-> [bg |-> <<220, 210, 160>>, fg |-> <<90, 70, 20>>],
   slate    |-> [bg |-> <<210, 210, 210>>, fg |-> <<30, 30, 35>>],
   gradient |-> [bg |-> <<240, 245, 255>>, fg |-> <<0, 0, 0>>],
   ice      |-> [bg |-> <<220, 245, 255>>, fg |-> <<0, 90, 180>>],
   lava     |-> [bg |-> <<40, 0, 0>>,      fg |-> <<255, 90, 10>>]]

NoImage == [kind |-> "none"]

\* renderRingCode: the background fill, then one wedge per bit that is 1,
\* bits taken ring by ring while bitIndex < bits.length
renderRingCode(bits, style) ==
  [kind    |-> "image",
   painted |-> [k \in 1..capacityBits |->
                  IF k <= Len(bits) /\ bits[k] = 1 THEN 1 ELSE 0],
   rot     |-> 0,
   bg      |-> STYLES[style].bg,
   fg      |-> STYLES[style].fg]

\* a pixel buffer of one colour
UniformImage(rgb) ==
  [kind    |-> "image",
   painted |-> [k \in 1..capacityBits |-> 0],
   rot     |-> 0,
   bg      |-> rgb,
   fg      |-> rgb]

\* some sector carries the foreground colour
Inked(img) == \E k \in 1..Len(img.painted) : img.painted[k] = 1

(***************************************************************************)
(* Preprocessing variants.  A variant is the pair of gray levels the       *)
(* background and the foreground sectors have in it, with the number of    *)
(* foreground sectors of each ring.                                        *)
(***************************************************************************)
\* a value stored into a Uint8ClampedArray: nearest integer, ties to even
RoundHalfEven(num, den) ==
  LET q == num \div den
      r == num % den
  IN  IF 2 * r > den THEN q + 1
      ELSE IF 2 * r < den THEN q
      ELSE IF q % 2 = 0 THEN q ELSE q + 1

\* 0.299 * r + 0.587 * g + 0.114 * b
GrayOf(rgb) == RoundHalfEven(299 * rgb[1] + 587 * rgb[2] + 114 * rgb[3], 1000)

\* how many sectors of each ring carry the foreground colour
InkOf(img) ==
  [ri \in 1..Len(SECTORS) |->
     Cardinality({s \in 1..SECTORS[ri] :
                    img.painted[SumRange(SECTORS, 1, ri - 1) + s] = 1})]

createGrayscale(img) ==
  [bg |-> GrayOf(img.bg), fg |-> GrayOf(img.fg), inked |-> Inked(img),
   ink |-> InkOf(img)]

\* the gray levels that occur in a variant
LevelsOf(v) == IF v.inked THEN {v.bg, v.fg} ELSE {v.bg}

\* global histogram equalisation, round((cdf[val] - cdfMin) / (total -
\* cdfMin) * 255): the lowest level goes to 0, the highest, whose cdf is
\* the total, to 255; with one level the quotient is 0/0 and 0 is stored
applyCLAHE(v) ==
  LET one   == Cardinality(LevelsOf(v)) = 1
      eq(x) == IF one THEN 0
               ELSE IF \A y \in LevelsOf(v) : x <= y THEN 0 ELSE 255
  IN  [v EXCEPT !.bg = eq(v.bg), !.fg = eq(v.fg)]

\* round((val - min) / range * 255), or a copy when range = 0
normalizeImage(v) ==
  LET one    == Cardinality(LevelsOf(v)) = 1
      nrm(x) == IF one THEN x
                ELSE IF \A y \in LevelsOf(v) : x <= y THEN 0 ELSE 255
  IN  [v EXCEPT !.bg = nrm(v.bg), !.fg = nrm(v.fg)]

\* table[i] = round(pow(i / 255, 1 / gamma) * 255), on the levels 0 and 255
\* that equalisation leaves: pow(0, x) = 0 and pow(1, x) = 1
applyGamma(v, gamma) ==
  LET tbl(x) == IF x = 0 THEN 0 ELSE 255
  IN  [v EXCEPT !.bg = tbl(v.bg), !.fg = tbl(v.fg)]

\* [gray, clahe, normalized, gamma07, gamma13]
preprocessVariants(img) ==
  LET gray  == createGrayscale(img)
      clahe == applyCLAHE(gray)
  IN  <<gray, clahe, normalizeImage(gray), applyGamma(clahe, 7),
        applyGamma(clahe, 13)>>

(***************************************************************************)
(* Ring sampler and thresholds.                                            *)
(***************************************************************************)
\* index of the bit before the first bit of each ring
RingOffsets == [ri \in 1..Len(SECTORS) |-> SumRange(SECTORS, 1, ri - 1)]

\* sampleRing: sector s is sampled over the middle 70% of the angles
\* (s + shift) * seg .. (s + shift + 1) * seg, which lie inside one sector
\* of the image; all taps read that sector's level, so their mean is it
sampleRing(img, v, ri, shift) ==
  [s \in 1..SECTORS[ri] |->
     IF img.painted[RingOffsets[ri] + 1
                      + ((s - 1 + shift + SECTORS[ri]
                            - (img.rot * SECTORS[ri]) \div SECTORS[1])
                         % SECTORS[ri])] = 1
     THEN v.fg ELSE v.bg]

\* histogram[x] of the values sampled from ring ri, for the values x that
\* occur: the shift is a whole number of sectors, so sampleRing reads every
\* sector of the ring once and the values are the ring's levels, turned
SampledHistogram(v, ri) ==
  LET n == SECTORS[ri]
      k == v.ink[ri]
  IN  IF v.fg = v.bg \/ k = 0 THEN [x \in {v.bg} |-> n]
      ELSE IF k = n THEN [x \in {v.fg} |-> n]
      ELSE [x \in {v.bg, v.fg} |-> IF x = v.fg THEN k ELSE n - k]

\* how many values are <= x
CountLeq(hist, x) ==
  LET below == {y \in DOMAIN hist : y <= x}
      RECURSIVE Sum(_)
      Sum(S) == IF S = {} THEN 0
                ELSE LET y == CHOOSE z \in S : TRUE
                     IN  hist[y] + Sum(S \ {y})
  IN  Sum(below)

\* [...vals].sort((a, b) => a - b)[k], k counted from 0
SortedAt(hist, k) ==
  CHOOSE x \in DOMAIN hist :
    /\ CountLeq(hist, x) > k
    /\ \A y \in DOMAIN hist : y < x => CountLeq(hist, y) <= k

\* thr = ((p30 + p70) / 2) * bias, bias in hundredths; the bit of a value
\* is v < thr ? 1 : 0
PercentileBit(hist, n, bias) ==
  LET p30  == SortedAt(hist, (n * 30) \div 100)
      p70  == SortedAt(hist, (n * 70) \div 100)
      thr2 == (p30 + p70) * bias
  IN  [x \in DOMAIN hist |-> IF 200 * x < thr2 THEN 1 ELSE 0]

\* vals.map(v => v < thr ? 1 : 0), bit the outcome of the test per value
MapBits(vals, bit) == [s \in 1..Len(vals) |-> bit[vals[s]]]

valsToBitsPercentile(vals, hist, bias) ==
  MapBits(vals, PercentileBit(hist, Len(vals), bias))

\* sum += i * histogram[i]
WeightedSum(hist) ==
  LET RECURSIVE Sum(_)
      Sum(S) == IF S = {} THEN 0
                ELSE LET y == CHOOSE z \in S : TRUE
                     IN  y * hist[y] + Sum(S \ {y})
  IN  Sum(DOMAIN hist)

\* the loop over t = 0..255 of valsToBitsOtsu from level t on; the bins of
\* levels that do not occur leave wB, sumB, maxVariance and threshold as
\* they are, so the loop steps from one occurring level to the next.  The
\* class means are whole numbers for the rings of this model (at most two
\* levels).
RECURSIVE OtsuLoop(_, _, _, _, _, _, _, _)
OtsuLoop(hist, total, sum, t, wB0, sumB0, maxVariance, threshold) ==
  LET later == {x \in DOMAIN hist : x >= t}
  IN  IF later = {} THEN threshold
      ELSE
        LET u    == CHOOSE x \in later : \A y \in later : x <= y
            wB   == wB0 + hist[u]
            wF   == total - wB
            sumB == sumB0 + u * hist[u]
            mB   == sumB \div wB
            mF   == (sum - sumB) \div wF
            variance == wB * wF * (mB - mF) * (mB - mF)
        IN  IF wF = 0 THEN threshold
            ELSE IF variance > maxVariance
              THEN OtsuLoop(hist, total, sum, u + 1, wB, sumB, variance, u)
              ELSE OtsuLoop(hist, total, sum, u + 1, wB, sumB, maxVariance,
                            threshold)

\* thr = threshold * bias, bias in hundredths; the bit of a value is
\* v < thr ? 1 : 0
OtsuBit(hist, n, bias) ==
  LET threshold == OtsuLoop(hist, n, WeightedSum(hist), 0, 0, 0, 0, 0)
      thr       == threshold * bias
  IN  [x \in DOMAIN hist |-> IF 100 * x < thr THEN 1 ELSE 0]

\* the sampled values are whole levels in 0..255, which
\* Math.max(0, Math.min(255, Math.round(v))) leaves as they are
valsToBitsOtsu(vals, hist, bias) ==
  MapBits(vals, OtsuBit(hist, Len(vals), bias))

(***************************************************************************)
(* Hypothesis search (decodeRingCodeFromImage).                            *)
(***************************************************************************)
INVERSIONS == <<FALSE, TRUE>>

\* 1.00, 0.95, 1.05, 0.90, 1.10 in hundredths
BIASES == <<100, 95, 105, 90, 110>>

THRESH_MODES == <<"pct", "otsu">>

ANCHOR_STEP == 4

\* bits.map(b => 1 - b)
Invert(bits) == [s \in 1..Len(bits) |-> 1 - bits[s]]

Thresholded(vals, hist, bias, threshMode) ==
  IF threshMode = "pct" THEN valsToBitsPercentile(vals, hist, bias)
  ELSE valsToBitsOtsu(vals, hist, bias)

\* variant: every ring is shifted by s0 sectors
RingShiftUnscaled(a, ri) == a

\* shift = (s0 * n) / SECTORS[0], a the anchor s0: a floating-point
\* quotient, held as a number of sectors (the remainder of the division is
\* dropped here)
RingShift(a, ri) == (a * SECTORS[ri]) \div SECTORS[1]

\* the bits of one ring under one hypothesis
RingBits(img, v, ri, inv, bias, threshMode, s0) ==
  IF inv
  THEN Invert(Thresholded(sampleRing(img, v, ri, RingShift(s0, ri)),
                          SampledHistogram(v, ri), bias, threshMode))
  ELSE Thresholded(sampleRing(img, v, ri, RingShift(s0, ri)),
                   SampledHistogram(v, ri), bias, threshMode)

\* for (const ring of ringBits) linear.push(...ring)
LinearOf(img, v, inv, bias, threshMode, s0) ==
  ConcatRange([ri \in 1..Len(SECTORS) |->
                 RingBits(img, v, ri, inv, bias, threshMode, s0)],
              1, Len(SECTORS))

(***************************************************************************)
(* The codec as a state machine: a text and a level are encoded, the       *)
(* bitstream is read back bit for bit (optionally damaged once on the way) *)
(* and handed to tryDecodeLinear.                                          *)
(***************************************************************************)
VARIABLES text, eccLevel, pc, textBytes, header, encoded, allBits,
          linear, tampered, decoded,
          canvas, imageData, onProgress, variants, vi, ii, bi, mi, s0,
          evaluated, result, progress,
          drawing, ui

codecVars == <<text, eccLevel, pc, textBytes, header, encoded, allBits,
               linear, tampered, decoded>>

\* the encoder's locals
encVars == <<text, eccLevel, textBytes, header, encoded, allBits>>

\* the loop indices of the search: variant, inversion, bias, threshold
\* mode (positions in the lists, from 0) and the anchor shift
loopVars == <<vi, ii, bi, mi, s0>>

searchVars == <<canvas, imageData, onProgress, variants, vi, ii, bi, mi, s0,
                evaluated, result, progress>>

\* the two renderings of a bit sequence, and the state of the
\* RingCodeDecoder component
viewVars == <<drawing, ui>>

vars == <<codecVars, searchVars, viewVars>>

NoDrawing == [kind |-> "none"]

\* useState(null), useState(''), useState(false), useState(0); the decoder
\* module has not been imported and no decodeImage call has been made
UiInitial ==
  [image            |-> "null",
   decodedText      |-> [kind |-> "text", text |-> <<>>],
   isDecoding       |-> FALSE,
   decodingProgress |-> 0,
   imported         |-> FALSE,
   calls            |-> <<>>]

ViewIdle ==
  /\ drawing = NoDrawing
  /\ ui = UiInitial

SearchIdle ==
  /\ canvas = NoImage
  /\ imageData = NoImage
  /\ onProgress = FALSE
  /\ variants = <<>>
  /\ vi = 0
  /\ ii = 0
  /\ bi = 0
  /\ mi = 0
  /\ s0 = 0
  /\ evaluated = 0
  /\ result = None
  /\ progress = <<>>

\* a text is an optional first character followed by a run of one fill
\* character: NUL, "A", the euro sign, the byte order mark, a lone high
\* surrogate
HeadChars == {0, 65, 8364, 65279, 55357}

Heads == {<<>>} \cup {<<c>> : c \in HeadChars}

\* run lengths of "A": short ones, each level's limit (93, 125, 141, 149)
\* and the length just above it, and the longest
FillCounts ==
  {k \in 0..MaxFill :
     \/ k \in {0, 1, 4}
     \/ \E l \in 0..3 : k \in {MaxPayloadBytes(l), MaxPayloadBytes(l) + 1}
     \/ k = MaxFill}

\* run lengths of NUL
NulCounts == {1, 4, 5}

Texts ==
  {h \o [j \in 1..k |-> 65] : h \in Heads, k \in FillCounts}
    \cup {h \o [j \in 1..k |-> 0] : h \in Heads, k \in NulCounts}

Levels == 0..3

InitCodec ==
  /\ text \in Texts
  /\ eccLevel \in Levels
  /\ pc = "start"
  /\ textBytes = <<>>
  /\ header = <<>>
  /\ encoded = <<>>
  /\ allBits = <<>>
  /\ linear = <<>>
  /\ tampered = FALSE
  /\ decoded = None
  /\ SearchIdle
  /\ ViewIdle

\* encodeText(text, eccLevel) returns its bitstream
Encode ==
  /\ pc = "start"
  /\ ~EncodeThrows(text, eccLevel)
  /\ textBytes' = TextEncode(text)
  /\ encoded' = simpleRS(PadPayload(textBytes', MaxPayloadBytes(eccLevel)),
                         EccBytesOf(eccLevel))
  /\ header' = BuildHeader(Len(textBytes'), eccLevel, EccBytesOf(eccLevel))
  /\ allBits' = AssembleBits(header', encoded')
  /\ pc' = "encoded"
  /\ UNCHANGED <<text, eccLevel, linear, tampered, decoded>>
  /\ UNCHANGED searchVars
  /\ UNCHANGED viewVars

\* encodeText(text, eccLevel) throws "Text too long"
EncodeFail ==
  /\ pc = "start"
  /\ EncodeThrows(text, eccLevel)
  /\ textBytes' = TextEncode(text)
  /\ pc' = "thrown"
  /\ UNCHANGED <<text, eccLevel, header, encoded, allBits, linear, tampered,
                 decoded>>
  /\ UNCHANGED searchVars
  /\ UNCHANGED viewVars

\* direct bit sampling: the decoder reads the encoder's bits
Transmit ==
  /\ pc = "encoded"
  /\ linear' = allBits
  /\ pc' = "sampled"
  /\ UNCHANGED <<text, eccLevel, textBytes, header, encoded, allBits,
                 tampered, decoded>>
  /\ UNCHANGED searchVars
  /\ UNCHANGED viewVars

(***************************************************************************)
(* Damage on the way from the encoder to the decoder, at most once.        *)
(***************************************************************************)
FlipAt(bits, k) == [bits EXCEPT ![k] = 1 - bits[k]]

\* bits[from + 1 ..] overwritten with the bits bb
OverwriteBits(bits, from, bb) ==
  [k \in 1..Len(bits) |->
     IF k > from /\ k <= from + Len(bb) THEN bb[k - from] ELSE bits[k]]

Overwrite(bits, from, bytes) == OverwriteBits(bits, from, bytesToBits(bytes))

\* positions of the flipped bit: the start pattern, the first and the last
\* bit of header bytes, the first and the last codeword bit
FlipPositions == {1, 33, 40, 41, 56, 64, 73, 80, 81, 88, 89, capacityBits}

FlipBit(k) ==
  /\ pc = "sampled"
  /\ ~tampered
  /\ linear' = FlipAt(linear, k)
  /\ tampered' = TRUE
  /\ UNCHANGED <<text, eccLevel, pc, textBytes, header, encoded, allBits,
                 decoded>>
  /\ UNCHANGED searchVars
  /\ UNCHANGED viewVars

ForgedPayloadLens == {0, 5, 157, 158}

ForgedEccLens == {0, 8, 157}

\* six header bytes and their checksum byte, wrong by off
ForgedHeader(h6, off) == h6 \o <<(SumSeq(h6) + off) % 256>>

\* the length fields are rewritten; the checksum byte is recomputed (off = 0)
\* or left wrong by off
ForgeHeader(pl, el, off) ==
  /\ pc = "sampled"
  /\ ~tampered
  /\ linear' = Overwrite(linear, Len(START_PATTERN_BITS),
                         ForgedHeader(<<header[1], header[2], pl \div 256,
                                        pl % 256, el \div 256, el % 256>>,
                                      off))
  /\ tampered' = TRUE
  /\ UNCHANGED <<text, eccLevel, pc, textBytes, header, encoded, allBits,
                 decoded>>
  /\ UNCHANGED searchVars
  /\ UNCHANGED viewVars

TruncatedLens == {0, 87, 88, 600}

\* the stream is cut short
Truncate(n) ==
  /\ pc = "sampled"
  /\ ~tampered
  /\ linear' = SubSeq(linear, 1, n)
  /\ tampered' = TRUE
  /\ UNCHANGED <<text, eccLevel, pc, textBytes, header, encoded, allBits,
                 decoded>>
  /\ UNCHANGED searchVars
  /\ UNCHANGED viewVars

BlotLens == {1, 4, 5}

\* the first n codeword bytes are washed out to all-0 or all-1 bits
Blot(v, n) ==
  /\ pc = "sampled"
  /\ ~tampered
  /\ linear' = Overwrite(linear, Len(START_PATTERN_BITS) + HEADER_BITS,
                         [j \in 1..n |-> v])
  /\ tampered' = TRUE
  /\ UNCHANGED <<text, eccLevel, pc, textBytes, header, encoded, allBits,
                 decoded>>
  /\ UNCHANGED searchVars
  /\ UNCHANGED viewVars

\* tryDecodeLinear(linear)
Decode ==
  /\ pc = "sampled"
  /\ decoded' = tryDecodeLinear(linear)
  /\ pc' = "decoded"
  /\ UNCHANGED <<text, eccLevel, textBytes, header, encoded, allBits, linear,
                 tampered>>
  /\ UNCHANGED searchVars
  /\ UNCHANGED viewVars

NextCodec ==
  \/ Encode
  \/ EncodeFail
  \/ Transmit
  \/ \E k \in FlipPositions : FlipBit(k)
  \/ \E pl \in ForgedPayloadLens, el \in ForgedEccLens, off \in {0, 1} :
       ForgeHeader(pl, el, off)
  \/ \E n \in TruncatedLens : Truncate(n)
  \/ \E v \in {0, 255}, n \in BlotLens : Blot(v, n)
  \/ Decode

SpecCodec == InitCodec /\ [][NextCodec]_vars

(***************************************************************************)
(* The search as a state machine: a text is encoded and rendered in a      *)
(* style, the rendering is photographed at some rotation (or the pixel     *)
(* buffer is a blank page), and decodeRingCodeFromImage runs one           *)
(* hypothesis per step.                                                    *)
(***************************************************************************)
\* "A", "A\0"
SearchTexts == {<<65>>, <<65, 0>>}

SearchLevels == {2}

SearchStyles == {"classic", "cyber"}

\* rotations of the photograph, in sectors of the first ring
Rotations == {0, 8}

BlankPages == {UniformImage(<<255, 255, 255>>)}

InitSearch ==
  /\ \/ text \in SearchTexts /\ pc = "start" /\ imageData = NoImage
     \/ text = <<>> /\ pc = "captured" /\ imageData \in BlankPages
  /\ eccLevel \in SearchLevels
  /\ textBytes = <<>>
  /\ header = <<>>
  /\ encoded = <<>>
  /\ allBits = <<>>
  /\ linear = <<>>
  /\ tampered = FALSE
  /\ decoded = None
  /\ canvas = NoImage
  /\ onProgress = FALSE
  /\ variants = <<>>
  /\ vi = 0
  /\ ii = 0
  /\ bi = 0
  /\ mi = 0
  /\ s0 = 0
  /\ evaluated = 0
  /\ result = None
  /\ progress = <<>>
  /\ ViewIdle

\* renderRingCode(bits, size, style)
Render(style) ==
  /\ pc = "encoded"
  /\ UNCHANGED viewVars
  /\ canvas' = renderRingCode(allBits, style)
  /\ pc' = "rendered"
  /\ UNCHANGED <<encVars, linear, tampered, decoded, imageData, onProgress,
                 variants, loopVars, evaluated, result, progress>>

\* the pixel buffer handed to the decoder: the rendering, turned by rot
Capture(rot) ==
  /\ pc = "rendered"
  /\ UNCHANGED viewVars
  /\ imageData' = [canvas EXCEPT !.rot = rot]
  /\ pc' = "captured"
  /\ UNCHANGED <<encVars, linear, tampered, decoded, canvas, onProgress,
                 variants, loopVars, evaluated, result, progress>>

\* decodeRingCodeFromImage(imageData, onProgress) up to the outer loop
StartSearch(cb) ==
  /\ pc = "captured"
  /\ UNCHANGED viewVars
  /\ onProgress' = cb
  /\ variants' = preprocessVariants(imageData)
  /\ vi' = 0
  /\ pc' = "variant"
  /\ UNCHANGED <<encVars, linear, tampered, decoded, canvas, imageData,
                 ii, bi, mi, s0, evaluated, result, progress>>

\* variant: the report is made with the number of variants done
ProgressOfNext(v, totalVariants) == ((v + 1) * 100) \div totalVariants

\* onProgress((vi / totalVariants) * 100), in percent
ProgressOf(v, totalVariants) == (v * 100) \div totalVariants

\* the head of the outer loop body: progress report, inner loops start
EnterVariant ==
  /\ pc = "variant"
  /\ UNCHANGED viewVars
  /\ vi < Len(variants)
  /\ progress' = IF onProgress
                 THEN Append(progress, ProgressOf(vi, Len(variants)))
                 ELSE progress
  /\ ii' = 0
  /\ bi' = 0
  /\ mi' = 0
  /\ s0' = 0
  /\ pc' = "hypothesis"
  /\ UNCHANGED <<encVars, linear, tampered, decoded, canvas, imageData,
                 onProgress, variants, vi, evaluated, result>>

\* variant: a rejection at the last anchor shift leaves the inner loops
NextIndicesBreak(i, b, m, s) ==
  IF s + ANCHOR_STEP < SECTORS[1] THEN <<i, b, m, s + ANCHOR_STEP>>
  ELSE <<>>

\* variant: the bias loop is nested inside the threshold-mode loop
NextIndicesModeOutside(i, b, m, s) ==
  IF s + ANCHOR_STEP < SECTORS[1] THEN <<i, b, m, s + ANCHOR_STEP>>
  ELSE IF b + 1 < Len(BIASES) THEN <<i, b + 1, m, 0>>
  ELSE IF m + 1 < Len(THRESH_MODES) THEN <<i, 0, m + 1, 0>>
  ELSE IF i + 1 < Len(INVERSIONS) THEN <<i + 1, 0, 0, 0>>
  ELSE <<>>

\* the loop indices after a rejected hypothesis: the innermost loop that
\* has a next element advances, the loops inside it start over; <<>> when
\* the four inner loops are done
NextIndices(i, b, m, s) ==
  IF s + ANCHOR_STEP < SECTORS[1] THEN <<i, b, m, s + ANCHOR_STEP>>
  ELSE IF m + 1 < Len(THRESH_MODES) THEN <<i, b, m + 1, 0>>
  ELSE IF b + 1 < Len(BIASES) THEN <<i, b + 1, 0, 0>>
  ELSE IF i + 1 < Len(INVERSIONS) THEN <<i + 1, 0, 0, 0>>
  ELSE <<>>

\* the bitstream of the hypothesis the loop indices stand at
CurrentLinear ==
  LinearOf(imageData, variants[vi + 1], INVERSIONS[ii + 1], BIASES[bi + 1],
           THRESH_MODES[mi + 1], s0)

\* variant: the test is text !== undefined, which null passes
SucceedsOnNull(r) == TRUE

\* variant: the return statement is inside the braces of if (onProgress)
SucceedsWithCallback(r) == r.kind = "text" /\ onProgress

\* a successful frame decode ends the search: if (text !== null) { ...
\* onProgress(100); return text }
Succeeds(r) == r.kind = "text"

\* one pass through the innermost loop body
TryHypothesis ==
  /\ pc = "hypothesis"
  /\ UNCHANGED viewVars
  /\ linear' = CurrentLinear
  /\ decoded' = tryDecodeLinear(linear')
  /\ evaluated' = evaluated + 1
  /\ IF Succeeds(decoded')
     THEN /\ result' = decoded'
          /\ progress' = IF onProgress THEN Append(progress, 100)
                         ELSE progress
          /\ pc' = "returned"
          /\ UNCHANGED loopVars
     ELSE IF NextIndices(ii, bi, mi, s0) # <<>>
     THEN /\ ii' = NextIndices(ii, bi, mi, s0)[1]
          /\ bi' = NextIndices(ii, bi, mi, s0)[2]
          /\ mi' = NextIndices(ii, bi, mi, s0)[3]
          /\ s0' = NextIndices(ii, bi, mi, s0)[4]
          /\ UNCHANGED <<vi, result, progress, pc>>
     ELSE /\ vi' = vi + 1
          /\ pc' = "variant"
          /\ UNCHANGED <<ii, bi, mi, s0, result, progress>>
  /\ UNCHANGED <<encVars, tampered, canvas, imageData, onProgress, variants>>

\* after the loops: if (onProgress) onProgress(100); return null
ReturnNone ==
  /\ pc = "variant"
  /\ UNCHANGED viewVars
  /\ vi >= Len(variants)
  /\ progress' = IF onProgress THEN Append(progress, 100) ELSE progress
  /\ result' = None
  /\ pc' = "returned"
  /\ UNCHANGED <<encVars, linear, tampered, decoded, canvas, imageData,
                 onProgress, variants, loopVars, evaluated>>

NextSearch ==
  \/ Encode
  \/ \E style \in SearchStyles : Render(style)
  \/ \E rot \in Rotations : Capture(rot)
  \/ \E cb \in BOOLEAN : StartSearch(cb)
  \/ EnterVariant
  \/ TryHypothesis
  \/ ReturnNone

SpecSearch == InitSearch /\ [][NextSearch]_vars

\* some statement of the program can run: the guards of the actions of
\* NextSearch (their assignments are total)
Running ==
  \/ pc = "start" /\ ~EncodeThrows(text, eccLevel)
  \/ pc \in {"encoded", "rendered", "captured", "variant", "hypothesis"}

\* a step of the running program: every step of NextSearch moves pc or
\* counts one more frame decode
Advance ==
  /\ Running
  /\ pc' \in {"encoded", "rendered", "captured", "variant", "hypothesis",
              "returned"}
  /\ evaluated' \in {evaluated, evaluated + 1}
  /\ <<pc', evaluated'>> # <<pc, evaluated>>

\* the search is sequential code that runs to its return statement: while
\* a statement can run, one does
SpecSearchFair == SpecSearch /\ WF_<<pc, evaluated>>(Advance)

(***************************************************************************)
(* The two renderers at the level of the wedges they draw.  Radii are held *)
(* in units of 1 / RadiusScale(rings) of a pixel and angles in hundredths  *)
(* of the sector width angleStep of the ring, in which the expressions of  *)
(* ringMidRadii, ringThickness, a0 and a1 are whole numbers; fractions of  *)
(* the source are in hundredths (0.92 is 92).  Both renderers evaluate the *)
(* same floating-point expressions, so the rounding they make is the same. *)
(***************************************************************************)
QUIET_ZONE == 48

RING_INNER_FRAC == 50

RING_OUTER_FRAC == 95

ARC_FILL_FRAC == 92

\* ringThickness = (radii[0] - QUIET_ZONE) * 0.45
THICKNESS_FRAC == 45

RadiusScale(rings) == 2 * (rings + 1) * 200 * 200

\* cx = size / 2, maxR = cx - QUIET_ZONE, ringThickness = maxR / (rings + 1),
\* radii[i] = ((t * i + t * RING_INNER_FRAC) + (t * i + t * RING_OUTER_FRAC)) / 2
ringMidRadii(size, rings) ==
  [i \in 1..rings |->
     (size - 2 * QUIET_ZONE)
       * (200 * (i - 1) + RING_INNER_FRAC + RING_OUTER_FRAC) * 200]

\* ringThickness / 2
HalfThickness(size) ==
  ((ringMidRadii(size, Len(SECTORS))[1]
      - QUIET_ZONE * RadiusScale(Len(SECTORS))) * THICKNESS_FRAC) \div 200

\* the ring (from 1) and the sector (from 0) that bit k (from 1) is drawn
\* at: bitIndex runs on through the rings
RingOfBit(k) ==
  CHOOSE ri \in 1..Len(SECTORS) :
    RingOffsets[ri] < k /\ k <= RingOffsets[ri] + SECTORS[ri]

SectorOfBit(k) == k - RingOffsets[RingOfBit(k)] - 1

\* the bits a renderer visits and finds 1: s < sectors && bitIndex <
\* bits.length, if (bits[bitIndex] === 1)
DrawnBits(bits) ==
  {k \in 1..capacityBits : k <= Len(bits) /\ bits[k] = 1}

\* a0 = s * angleStep - angleStep * (1 - ARC_FILL_FRAC) / 2
WedgeStart(sec) == sec * 100 - (100 * (100 - ARC_FILL_FRAC)) \div 200

\* a1 = (s + 1) * angleStep - angleStep * (1 - ARC_FILL_FRAC) / 2
WedgeEnd(sec) == (sec + 1) * 100 - (100 * (100 - ARC_FILL_FRAC)) \div 200

\* beginPath; arc(cx, cy, r + ringThickness / 2, a0, a1); arc(cx, cy,
\* r - ringThickness / 2, a1, a0, true); closePath; fillStyle = fg; fill
CanvasFill(k, size, style) ==
  [ring      |-> RingOfBit(k),
   sector    |-> SectorOfBit(k),
   outer     |-> [r    |-> ringMidRadii(size, Len(SECTORS))[RingOfBit(k)]
                              + HalfThickness(size),
                  from |-> WedgeStart(SectorOfBit(k)),
                  to   |-> WedgeEnd(SectorOfBit(k)),
                  anticlockwise |-> FALSE],
   inner     |-> [r    |-> ringMidRadii(size, Len(SECTORS))[RingOfBit(k)]
                              - HalfThickness(size),
                  from |-> WedgeEnd(SectorOfBit(k)),
                  to   |-> WedgeStart(SectorOfBit(k)),
                  anticlockwise |-> TRUE],
   fillStyle |-> STYLES[style].fg]

\* renderRingCode as the drawing calls it makes: fillRect of the whole
\* canvas in bg, then one filled path per bit that is 1
renderRingCodeCalls(bits, size, style) ==
  [kind     |-> "canvas",
   width    |-> size,
   height   |-> size,
   fillRect |-> STYLES[style].bg,
   fills    |-> {CanvasFill(k, size, style) : k \in DrawnBits(bits)}]

\* ringThickness / 2 of generateSVG
SvgHalfThickness(size) ==
  ((ringMidRadii(size, Len(SECTORS))[1]
      - QUIET_ZONE * RadiusScale(Len(SECTORS))) * THICKNESS_FRAC) \div 200

\* variant: the start of the wedge is moved into the sector
SvgWedgeStartInset(sec) ==
  sec * 100 + (100 * (100 - ARC_FILL_FRAC)) \div 200

\* a0 of generateSVG
SvgWedgeStart(sec) == sec * 100 - (100 * (100 - ARC_FILL_FRAC)) \div 200

\* a1 of generateSVG
SvgWedgeEnd(sec) == (sec + 1) * 100 - (100 * (100 - ARC_FILL_FRAC)) \div 200

\* <path d="M x0o,y0o A rOuter,rOuter 0 largeArc 1 x1o,y1o L x1i,y1i
\* A rInner,rInner 0 largeArc 0 x0i,y0i Z" fill=fg/>, the points
\* (cx + r cos a, cy + r sin a) held as (r, a); largeArc = (a1 - a0) >
\* Math.PI ? 1 : 0, half a turn being 50 * sectors hundredths
SvgPath(k, size, style) ==
  [ring   |-> RingOfBit(k),
   sector |-> SectorOfBit(k),
   M      |-> [r |-> ringMidRadii(size, Len(SECTORS))[RingOfBit(k)]
                       + SvgHalfThickness(size),
               a |-> SvgWedgeStart(SectorOfBit(k))],
   A1     |-> [rx |-> ringMidRadii(size, Len(SECTORS))[RingOfBit(k)]
                        + SvgHalfThickness(size),
               largeArc |-> IF SvgWedgeEnd(SectorOfBit(k))
                                 - SvgWedgeStart(SectorOfBit(k))
                               > 50 * SECTORS[RingOfBit(k)] THEN 1 ELSE 0,
               sweep |-> 1,
               to |-> [r |-> ringMidRadii(size, Len(SECTORS))[RingOfBit(k)]
                               + SvgHalfThickness(size),
                       a |-> SvgWedgeEnd(SectorOfBit(k))]],
   L      |-> [r |-> ringMidRadii(size, Len(SECTORS))[RingOfBit(k)]
                       - SvgHalfThickness(size),
               a |-> SvgWedgeEnd(SectorOfBit(k))],
   A2     |-> [rx |-> ringMidRadii(size, Len(SECTORS))[RingOfBit(k)]
                        - SvgHalfThickness(size),
               largeArc |-> IF SvgWedgeEnd(SectorOfBit(k))
                                 - SvgWedgeStart(SectorOfBit(k))
                               > 50 * SECTORS[RingOfBit(k)] THEN 1 ELSE 0,
               sweep |-> 0,
               to |-> [r |-> ringMidRadii(size, Len(SECTORS))[RingOfBit(k)]
                               - SvgHalfThickness(size),
                       a |-> SvgWedgeStart(SectorOfBit(k))]],
   fill   |-> STYLES[style].fg]

\* generateSVG: the svg element, a rect of the whole size in bg, then one
\* path per bit that is 1
generateSVG(bits, size, style) ==
  [kind    |-> "svg",
   width   |-> size,
   height  |-> size,
   viewBox |-> <<0, 0, size, size>>,
   rect    |-> [width |-> size, height |-> size, fill |-> STYLES[style].bg],
   paths   |-> {SvgPath(k, size, style) : k \in DrawnBits(bits)}]

(***************************************************************************)
(* The renderers as a state machine: a bit sequence, from encodeText or    *)
(* given by the caller, is drawn by one renderer and by the other, in      *)
(* either order, at one size and in one style.                             *)
(***************************************************************************)
\* "", "A", "AB"
RenderTexts == {<<>>, <<65>>, <<65, 66>>}

\* bit sequences that are not bitstreams: empty, one bit, a 1 after a 0,
\* one that ends with the first sector of the second ring, one longer than
\* the six rings
RawBits ==
  {<<>>, <<1>>, <<0, 1>>, [k \in 1..(SECTORS[1] + 1) |-> 1],
   [k \in 1..(capacityBits + 6) |-> (k + 1) % 2]}

\* the preview canvas and the exported SVG of the generator
RenderSizes == {800, 1200}

RenderStyles == {"cyber", "gradient"}

InitRender ==
  /\ \/ text \in RenderTexts /\ pc = "start" /\ allBits = <<>>
     \/ text = <<>> /\ pc = "encoded" /\ allBits \in RawBits
  /\ eccLevel \in Levels
  /\ textBytes = <<>>
  /\ header = <<>>
  /\ encoded = <<>>
  /\ linear = <<>>
  /\ tampered = FALSE
  /\ decoded = None
  /\ SearchIdle
  /\ ViewIdle

\* the other renderer has not run, or has run at this size and style
Undrawn(by, size, style) ==
  \/ drawing = NoDrawing
  \/ /\ drawing.kind = "drawing"
     /\ drawing[by] = NoDrawing
     /\ drawing.size = size
     /\ drawing.style = style

\* renderRingCode(bits, size, style)
RenderCanvas(size, style) ==
  /\ pc = "encoded"
  /\ Undrawn("canvas", size, style)
  /\ drawing' = [kind   |-> "drawing",
                 size   |-> size,
                 style  |-> style,
                 canvas |-> renderRingCodeCalls(allBits, size, style),
                 svg    |-> IF drawing = NoDrawing THEN NoDrawing
                            ELSE drawing.svg]
  /\ UNCHANGED <<codecVars, searchVars, ui>>

\* generateSVG(bits, size, style)
GenerateSVG(size, style) ==
  /\ pc = "encoded"
  /\ Undrawn("svg", size, style)
  /\ drawing' = [kind   |-> "drawing",
                 size   |-> size,
                 style  |-> style,
                 canvas |-> IF drawing = NoDrawing THEN NoDrawing
                            ELSE drawing.canvas,
                 svg    |-> generateSVG(allBits, size, style)]
  /\ UNCHANGED <<codecVars, searchVars, ui>>

NextRender ==
  \/ Encode
  \/ \E size \in RenderSizes, style \in RenderStyles :
       RenderCanvas(size, style)
  \/ \E size \in RenderSizes, style \in RenderStyles :
       GenerateSVG(size, style)

SpecRender == InitRender /\ [][NextRender]_vars

(***************************************************************************)
(* The RingCodeDecoder component: images are supplied (the onload of the   *)
(* FileReader of an upload, or a camera capture), each starting a          *)
(* decodeImage call that runs up to its await, goes on when the decoder    *)
(* module is imported, and ends in the task in which its Image has loaded: *)
(* there the search runs to its end and the awaits that follow it resume   *)
(* before any other task.  ui.calls holds the calls in the order they were *)
(* made.                                                                   *)
(***************************************************************************)
MaxCalls == 3

ImageUrls == {"urlA", "urlB", "urlBlank"}

\* what decodeRingCodeFromDataURL resolves to for each image: a text, or
\* null for an image that holds no code
DecodeOutcome ==
  [urlA     |-> [kind |-> "text", text |-> <<65>>],
   urlB     |-> [kind |-> "text", text |-> <<66>>],
   urlBlank |-> None]

\* if (result) setDecodedText(result) else setDecodedText(the failure
\* message); the empty string is falsy
Displayed(r) ==
  IF r.kind = "text" /\ r.text # <<>> THEN r
  ELSE [kind |-> "message", id |-> "decode failed"]

InitUi ==
  /\ text = <<>>
  /\ eccLevel = 0
  /\ pc = "ui"
  /\ textBytes = <<>>
  /\ header = <<>>
  /\ encoded = <<>>
  /\ allBits = <<>>
  /\ linear = <<>>
  /\ tampered = FALSE
  /\ decoded = None
  /\ SearchIdle
  /\ ViewIdle

\* setImage(dataUrl); decodeImage(dataUrl): setIsDecoding(true),
\* setDecodingProgress(0), await import(...).  The import of a module that
\* is loaded is fulfilled at once and the call goes on to set img.src
\* before any other task runs; the first import takes its time
SupplyImage(u) ==
  /\ pc = "ui"
  /\ Len(ui.calls) < MaxCalls
  /\ ui' = [ui EXCEPT !.image = u,
                      !.isDecoding = TRUE,
                      !.decodingProgress = 0,
                      !.calls = Append(@, [dataUrl |-> u,
                                           stage |-> IF ui.imported
                                                     THEN "loading"
                                                     ELSE "importing"])]
  /\ UNCHANGED <<codecVars, searchVars, drawing>>

\* the decoder module is loaded: every call that waits for it goes on;
\* decodeRingCodeFromDataURL sets img.src
ImportDone ==
  /\ pc = "ui"
  /\ ~ui.imported
  /\ \E c \in 1..Len(ui.calls) : ui.calls[c].stage = "importing"
  /\ ui' = [ui EXCEPT !.imported = TRUE,
                      !.calls = [c \in 1..Len(ui.calls) |->
                                   [ui.calls[c] EXCEPT !.stage = "loading"]]]
  /\ UNCHANGED <<codecVars, searchVars, drawing>>

\* img.onload of call c: the search reports its progress and resolves, then
\* decodeImage sets the text and, in finally, setIsDecoding(false) and
\* setDecodingProgress(0)
ImageLoaded(c) ==
  /\ pc = "ui"
  /\ c \in 1..Len(ui.calls)
  /\ ui.calls[c].stage = "loading"
  /\ ui' = [ui EXCEPT !.decodedText = Displayed(DecodeOutcome[ui.calls[c].dataUrl]),
                      !.isDecoding = FALSE,
                      !.decodingProgress = 0,
                      !.calls[c].stage = "done"]
  /\ UNCHANGED <<codecVars, searchVars, drawing>>

NextUi ==
  \/ \E u \in ImageUrls : SupplyImage(u)
  \/ ImportDone
  \/ \E c \in 1..MaxCalls : ImageLoaded(c)

SpecUi == InitUi /\ [][NextUi]_vars

(***************************************************************************)
(* Properties of the codec.                                                *)
(***************************************************************************)
MaxPayloadTable == <<149, 141, 125, 93>>

EccLenTable == <<8, 16, 32, 64>>

\* C1: an undamaged bitstream of encodeText, handed to tryDecodeLinear,
\* gives back exactly the text that was encoded, for every text that fits
\* the level (the empty text and texts with NUL characters included).
C1_RoundTrip ==
  (pc = "decoded" /\ ~tampered) =>
    decoded = [kind |-> "text", text |-> text]

\* C2: the limits are 149/141/125/93 bytes for levels 0/1/2/3; encodeText
\* returns a bitstream for every text of at most that many bytes and throws,
\* returning none, for every longer text.
C2_PayloadBoundary ==
  /\ \A l \in Levels :
       /\ EccBytesOf(l) = EccLenTable[l + 1]
       /\ MaxPayloadBytes(l) = MaxPayloadTable[l + 1]
       /\ MaxPayloadTable[l + 1] = (1256 - EccLenTable[l + 1] * 8) \div 8
  /\ pc # "start" =>
       /\ pc = "thrown" <=> Len(textBytes) > MaxPayloadTable[eccLevel + 1]
       /\ pc = "thrown" => allBits = <<>>
       /\ pc # "thrown" => allBits # <<>>

\* a text one byte above the limit of its level was refused
C2_Witness ==
  /\ pc = "thrown"
  /\ Len(textBytes) = MaxPayloadTable[eccLevel + 1] + 1
  /\ allBits = <<>>

\* C3: the six rings hold 1344 bits, 1256 of them after the 32-bit start
\* pattern and the 56-bit header, and the encoder and the decoder compute
\* the same two numbers.
C3_Capacity ==
  /\ Len(SECTORS) = 6
  /\ capacityBits = 1344
  /\ capacityDataBits = 1344 - 32 - 56
  /\ capacityDataBits = 1256
  /\ decCapacityBits = capacityBits
  /\ decCapacityDataBits = capacityDataBits
  /\ pc = "sampled" => Len(linear) <= decCapacityBits

\* an encoded stream fills the capacity and reaches the decoder
C3_Witness == pc = "sampled" /\ ~tampered /\ Len(linear) = 1344

BitOfByte(byte, i) == (byte \div Pow2(i)) % 2

\* C4: a returned bitstream has exactly 1344 entries, each 0 or 1: the
\* start pattern 1,0,1,0,..., the 56 header bits, the codeword bits, most
\* significant bit of each byte first, and zeros up to the capacity.
C4_BitstreamLayout ==
  pc = "encoded" =>
    /\ Len(allBits) = 1344
    /\ \A k \in 1..Len(allBits) : allBits[k] \in {0, 1}
    /\ \A k \in 1..32 : allBits[k] = k % 2
    /\ Len(header) = 7
    /\ \A j \in 1..7, i \in 0..7 :
         allBits[32 + 8 * (j - 1) + (8 - i)] = BitOfByte(header[j], i)
    /\ 88 + 8 * Len(encoded) <= 1344
    /\ \A j \in 1..Len(encoded), i \in 0..7 :
         allBits[88 + 8 * (j - 1) + (8 - i)] = BitOfByte(encoded[j], i)
    /\ \A k \in (88 + 8 * Len(encoded) + 1)..1344 : allBits[k] = 0

\* a text with bytes above 127 was encoded
C4_Witness ==
  /\ pc = "encoded"
  /\ \E j \in 1..Len(textBytes) : textBytes[j] > 127
  /\ \E k \in 89..1344 : allBits[k] = 1

\* the byte written at bits 32 + 8j .. 32 + 8j + 7 of the stream
StreamHeaderByte(bits, j) ==
  128 * bits[32 + 8 * j + 1] + 64 * bits[32 + 8 * j + 2]
    + 32 * bits[32 + 8 * j + 3] + 16 * bits[32 + 8 * j + 4]
    + 8 * bits[32 + 8 * j + 5] + 4 * bits[32 + 8 * j + 6]
    + 2 * bits[32 + 8 * j + 7] + bits[32 + 8 * j + 8]

\* C5: bits 32..87 of an encoded stream are the bytes version, level,
\* payload length (high, low), redundancy length (high, low) and the sum of
\* these six modulo 256; tryDecodeLinear reads the same fields back.
C5_HeaderFormat ==
  pc = "encoded" =>
    LET n  == Len(textBytes)
        e  == EccLenTable[eccLevel + 1]
        hb == [j \in 0..6 |-> StreamHeaderByte(allBits, j)]
        p  == ParseHeader(allBits)
    IN  /\ hb[0] = 3
        /\ hb[1] = eccLevel
        /\ hb[2] = n \div 256
        /\ hb[3] = n % 256
        /\ hb[4] = e \div 256
        /\ hb[5] = e % 256
        /\ hb[6] = (hb[0] + hb[1] + hb[2] + hb[3] + hb[4] + hb[5]) % 256
        /\ p.version = 3
        /\ p.eccLevel = eccLevel
        /\ p.payloadLen = n
        /\ p.eccLen = e
        /\ p.checksumVal = hb[6]

\* a stream with a payload length above 127 and level 1
C5_Witness ==
  /\ pc = "encoded"
  /\ eccLevel = 1
  /\ Len(textBytes) = 141
  /\ StreamHeaderByte(allBits, 3) = 141

\* the 48 bits of the first six header bytes
HeaderFieldBits == 33..80

\* C6: when tryDecodeLinear accepts a stream, the same stream with any one
\* of the 48 bits of the first six header bytes flipped has a different
\* recomputed checksum and is rejected.
C6_ChecksumSensitivity ==
  (pc = "decoded" /\ decoded.kind = "text") =>
    \A k \in HeaderFieldBits :
      LET flipped == FlipAt(linear, k)
      IN  /\ decChecksum8(SubSeq(ParseHeader(flipped).hdr, 1, 6))
               # decChecksum8(SubSeq(ParseHeader(linear).hdr, 1, 6))
          /\ ParseHeader(flipped).checksumVal = ParseHeader(linear).checksumVal
          /\ tryDecodeLinear(flipped) = None

\* an accepted stream was damaged by one flip in the header fields and the
\* decoder rejected it
C6_Witness ==
  /\ pc = "decoded"
  /\ decoded = None
  /\ \E k \in HeaderFieldBits : linear = FlipAt(allBits, k)
  /\ tryDecodeLinear(allBits) # None

\* the checks of tryDecodeLinear that come before redundancy validation
ChecksumMatches(bits) ==
  Len(bits) >= 88 /\
    (StreamHeaderByte(bits, 0) + StreamHeaderByte(bits, 1)
       + StreamHeaderByte(bits, 2) + StreamHeaderByte(bits, 3)
       + StreamHeaderByte(bits, 4) + StreamHeaderByte(bits, 5)) % 256
      = StreamHeaderByte(bits, 6)

DeclaredPayloadLen(bits) ==
  256 * StreamHeaderByte(bits, 2) + StreamHeaderByte(bits, 3)

DeclaredEccLen(bits) ==
  256 * StreamHeaderByte(bits, 4) + StreamHeaderByte(bits, 5)

ReachesValidation(bits) ==
  /\ ChecksumMatches(bits)
  /\ DeclaredPayloadLen(bits) > 0
  /\ DeclaredPayloadLen(bits) + DeclaredEccLen(bits) <= 157
  /\ Len(bits) >= 88 + 8 * (DeclaredPayloadLen(bits) + DeclaredEccLen(bits))

\* the data bytes of the codeword: the payloadLen bytes after the header
DataBytes(bits) ==
  [j \in 1..DeclaredPayloadLen(bits) |->
     LET at(i) == bits[88 + 8 * (j - 1) + i]
     IN  128 * at(1) + 64 * at(2) + 32 * at(3) + 16 * at(4)
         + 8 * at(5) + 4 * at(6) + 2 * at(7) + at(8)]

\* C7 as stated: a codeword with at least 80% of its data bytes equal to 0
\* or 255 is rejected although the header is well formed.
C7_AtLeast80Rejected ==
  (pc = "decoded" /\ ReachesValidation(linear)) =>
    LET d == DataBytes(linear)
    IN  5 * (CountEq(d, 0) + CountEq(d, 255)) >= 4 * Len(d) =>
          decoded = None

\* C7 amended: a codeword with more than 80% of its data bytes equal to 0,
\* or with more than 80% of them equal to 255, is rejected although the
\* header is well formed.
C7_MoreThan80Rejected ==
  (pc = "decoded" /\ ReachesValidation(linear)) =>
    LET d == DataBytes(linear)
    IN  (5 * CountEq(d, 0) > 4 * Len(d) \/ 5 * CountEq(d, 255) > 4 * Len(d))
          => decoded = None

\* a well-formed frame whose five data bytes are all 255 was rejected
C7_Witness ==
  /\ pc = "decoded"
  /\ ReachesValidation(linear)
  /\ DeclaredPayloadLen(linear) = 5
  /\ CountEq(DataBytes(linear), 255) = 5
  /\ decoded = None

\* C9: tryDecodeLinear returns none, as a value, when the checksum does not
\* match, when the declared payload length is 0, when payload plus
\* redundancy length exceeds 157, or when the stream is shorter than
\* 88 + 8 * (payload + redundancy length); it returns a string only when
\* none of these holds and redundancy validation succeeds.
C9_RejectionPaths ==
  pc = "decoded" =>
    /\ decoded.kind \in {"none", "text"}
    /\ ~ReachesValidation(linear) => decoded = None
    /\ decoded.kind = "text" =>
         /\ ReachesValidation(linear)
         /\ LET d == DataBytes(linear)
            IN  /\ 5 * CountEq(d, 0) <= 4 * Len(d)
                /\ 5 * CountEq(d, 255) <= 4 * Len(d)
                /\ decoded.text = TextDecode(d)

\* a stream whose header declares more than fits was rejected
C9_Witness ==
  /\ pc = "decoded"
  /\ ChecksumMatches(linear)
  /\ DeclaredPayloadLen(linear) + DeclaredEccLen(linear) > 157
  /\ decoded = None

(***************************************************************************)
(* Properties of the search.                                               *)
(***************************************************************************)
IsAllZero(bits) == Len(bits) = 1344 /\ \A k \in 1..Len(bits) : bits[k] = 0

\* the pixel buffer has one colour only
UniformInput ==
  /\ imageData.kind = "image"
  /\ \A k \in 1..Len(imageData.painted) : imageData.painted[k] = 0

Searching == pc \in {"variant", "hypothesis", "returned"}

\* C8: no frame decode accepts the all-zero 1344-bit stream, and for a
\* uniform input every frame decode returns none and the search returns
\* none after the full sweep of 5 * 2 * 5 * 2 * 32 hypotheses.
C8_DecodeExhaustion ==
  /\ (Searching /\ evaluated > 0 /\ IsAllZero(linear)) =>
       /\ decoded = None
       /\ ~(pc = "returned" /\ result.kind = "text")
  /\ (Searching /\ UniformInput) =>
       /\ evaluated > 0 => decoded = None
       /\ pc = "returned" => (result = None /\ evaluated = 3200)

\* the search over a uniform input, whose first hypothesis gives the
\* all-zero stream, has returned none after 3200 frame decodes
C8_Witness ==
  /\ pc = "returned"
  /\ UniformInput
  /\ IsAllZero(LinearOf(imageData, variants[1], FALSE, 100, "pct", 0))
  /\ result = None
  /\ evaluated = 3200

\* position of a hypothesis in the order variant > inversion > bias >
\* threshold mode > anchor shift, counted from 0
RankOf(v, i, b, m, s) == (((v * 2 + i) * 5 + b) * 2 + m) * 32 + (s \div 4)

\* the bitstream of the hypothesis at position r in that order, with
\* inversion (false, true), bias (1.00, 0.95, 1.05, 0.90, 1.10), threshold
\* mode (percentile, otsu) and anchor shift (0, 4, ..., 124)
LinearAtRank(r) ==
  LinearOf(imageData, variants[(r \div 640) + 1],
           <<FALSE, TRUE>>[((r \div 320) % 2) + 1],
           <<100, 95, 105, 90, 110>>[((r \div 64) % 5) + 1],
           <<"pct", "otsu">>[((r \div 32) % 2) + 1],
           (r % 32) * 4)

\* C10: hypotheses are evaluated in the fixed nested order; the search
\* returns the text of the first one whose bitstream validates, all
\* hypotheses before it having been evaluated and rejected, and evaluates
\* none after it.
C10_FirstWins ==
  /\ pc = "hypothesis" =>
       /\ evaluated = RankOf(vi, ii, bi, mi, s0)
       /\ evaluated > 0 => decoded = None
  /\ (pc = "returned" /\ result.kind = "text") =>
       /\ evaluated = RankOf(vi, ii, bi, mi, s0) + 1
       /\ linear = LinearAtRank(evaluated - 1)
       /\ result = tryDecodeLinear(linear)
       /\ \A r \in 0..(evaluated - 2) : tryDecodeLinear(LinearAtRank(r)) = None
       /\ ~ENABLED TryHypothesis

\* a search succeeded at a hypothesis that is not the first one
C10_Witness ==
  /\ pc = "returned"
  /\ result.kind = "text"
  /\ evaluated > 1

\* C11: the search always returns; a rejected hypothesis only moves the
\* loops on to the next hypothesis, so that the hypotheses are visited one
\* by one in rank order, each once, and when none validates the search
\* returns none after all 5 * 2 * 5 * 2 * 32 = 3200 of them, without error.
C11_SearchTerminates ==
  /\ <>(pc = "returned")
  /\ [](pc \in {"start", "encoded", "rendered", "captured", "variant",
                "hypothesis", "returned"})
  /\ []((pc = "hypothesis" /\ evaluated > 0) =>
          /\ decoded = None
          /\ evaluated = RankOf(vi, ii, bi, mi, s0)
          /\ evaluated < 5 * 2 * 5 * 2 * 32)
  /\ []((pc = "variant" /\ evaluated > 0) =>
          /\ decoded = None
          /\ evaluated = vi * (2 * 5 * 2 * 32))
  /\ []((pc = "returned" /\ result = None) =>
          /\ vi = 5
          /\ evaluated = 5 * 2 * 5 * 2 * 32)

\* an exhausted search: the last of the 3200 hypotheses was rejected and
\* none was returned
C11_Witness ==
  /\ pc = "returned"
  /\ result = None
  /\ decoded = None
  /\ vi = Len(variants)
  /\ <<ii, bi, mi, s0>> = <<1, 4, 1, 124>>
  /\ evaluated = 3200

\* the number of variant indices the search has entered
VariantsEntered ==
  IF pc = "hypothesis" \/ (pc = "returned" /\ result.kind = "text")
  THEN vi + 1
  ELSE vi

\* C12 as stated: the callback has been invoked once per variant index
\* entered and no more, so at most 5 times, whether the search is under
\* way, has succeeded or is exhausted.
C12_OncePerVariant ==
  (Searching /\ onProgress) =>
    /\ Len(progress) = VariantsEntered
    /\ Len(progress) <= 5

\* C12, amended: the callback is invoked once on entering each variant
\* index, with vi / 5 * 100, and once more, with 100, right before the
\* search returns, on success and on exhaustion alike: at most 6 times and
\* never per hypothesis; without a callback nothing is reported.
C12_OncePerVariantAndAtReturn ==
  /\ (Searching /\ onProgress) =>
       /\ progress = [k \in 1..VariantsEntered |-> (k - 1) * 20]
                       \o (IF pc = "returned" THEN <<100>> ELSE <<>>)
       /\ Len(progress) <= 6
  /\ ~onProgress => progress = <<>>

\* a search with a callback that succeeded in the first variant after more
\* than 300 hypotheses: two reports
C12_Witness ==
  /\ pc = "returned"
  /\ onProgress
  /\ result.kind = "text"
  /\ evaluated > 300
  /\ progress = <<0, 100>>

\* the loop indices of the hypothesis at position r
IndicesAtRank(r) ==
  <<r \div 640, (r \div 320) % 2, (r \div 64) % 5, (r \div 32) % 2,
    (r % 32) * 4>>

CanvasDrawn == drawing.kind = "drawing" /\ drawing.canvas # NoDrawing

SvgDrawn == drawing.kind = "drawing" /\ drawing.svg # NoDrawing

\* the bits the renderers are given that have a sector
PlacedBits == {k \in 1..capacityBits : k <= Len(allBits)}

\* C14: for every sector s of every ring whose bit is 1 the renderer paints
\* a wedge that starts at s * angleStep + 0.04 * angleStep and ends at
\* (s + 1) * angleStep - 0.04 * angleStep, so that it spans 0.92 of the
\* sector and is centred in it; for a bit 0 nothing is painted.
C14_WedgeGeometry ==
  /\ CanvasDrawn =>
       \A k \in PlacedBits :
         IF allBits[k] = 1
         THEN \E f \in drawing.canvas.fills :
                /\ <<f.ring, f.sector>> = <<RingOfBit(k), SectorOfBit(k)>>
                /\ f.outer.from = SectorOfBit(k) * 100 + 4
                /\ f.outer.to = (SectorOfBit(k) + 1) * 100 - 4
                /\ f.outer.to - f.outer.from = 92
         ELSE \A f \in drawing.canvas.fills :
                <<f.ring, f.sector>> # <<RingOfBit(k), SectorOfBit(k)>>
  /\ SvgDrawn =>
       \A k \in PlacedBits :
         IF allBits[k] = 1
         THEN \E q \in drawing.svg.paths :
                /\ <<q.ring, q.sector>> = <<RingOfBit(k), SectorOfBit(k)>>
                /\ q.M.a = SectorOfBit(k) * 100 + 4
                /\ q.A1.to.a = (SectorOfBit(k) + 1) * 100 - 4
                /\ q.A1.to.a - q.M.a = 92
         ELSE \A q \in drawing.svg.paths :
                <<q.ring, q.sector>> # <<RingOfBit(k), SectorOfBit(k)>>

\* the wedge a filled canvas path covers
CanvasWedge(f) ==
  [ring |-> f.ring, sector |-> f.sector, a0 |-> f.outer.from,
   a1 |-> f.outer.to, rOuter |-> f.outer.r, rInner |-> f.inner.r,
   fg |-> f.fillStyle]

\* the wedge an SVG path covers
SvgWedge(q) ==
  [ring |-> q.ring, sector |-> q.sector, a0 |-> q.M.a, a1 |-> q.A1.to.a,
   rOuter |-> q.A1.rx, rInner |-> q.A2.rx, fg |-> q.fill]

LastBytes(bytes, n) == SubSeq(bytes, Len(bytes) - n + 1, Len(bytes))

\* C16: for an undamaged bitstream of encodeText, the codeword that
\* tryDecodeLinear hands to rsDecodeSimple ends with exactly the redundancy
\* bytes that simpleRS appended to the zero-padded payload, and what comes
\* before them is the payload.
C16_CodewordAgreement ==
  (pc = "decoded" /\ ~tampered /\ ReachesValidation(linear)) =>
    /\ LastBytes(ExtractCodeword(linear, DeclaredPayloadLen(linear),
                                 DeclaredEccLen(linear)),
                 DeclaredEccLen(linear))
         = LastBytes(encoded, EccBytesOf(eccLevel))
    /\ SubSeq(ExtractCodeword(linear, DeclaredPayloadLen(linear),
                              DeclaredEccLen(linear)),
              1, DeclaredPayloadLen(linear))
         = textBytes

\* what may stand in the place of the start pattern: 32 zeros, 32 ones,
\* the start pattern inverted, the start pattern with its last bit flipped
StartVariants ==
  {[k \in 1..32 |-> 0], [k \in 1..32 |-> 1],
   [k \in 1..32 |-> 1 - START_PATTERN_BITS[k]],
   [k \in 1..32 |-> IF k = 32 THEN 1 - START_PATTERN_BITS[k]
                    ELSE START_PATTERN_BITS[k]]}

\* the same stream with b in its first 32 places, as far as it has them
WithStart(bits, b) ==
  [k \in 1..Len(bits) |-> IF k <= 32 THEN b[k] ELSE bits[k]]

\* C17: a stream of the same length that differs from the decoded one only
\* within the first 32 bits decodes to the same result, text or none.
C17_StartPatternIgnored ==
  pc = "decoded" =>
    \A b \in StartVariants : tryDecodeLinear(WithStart(linear, b)) = decoded

\* a bitstream whose first bit was flipped was decoded to its text
C17_Witness ==
  /\ pc = "decoded"
  /\ tampered
  /\ Len(linear) = Len(allBits)
  /\ linear[1] # allBits[1]
  /\ SubSeq(linear, 1, 32) # START_PATTERN_BITS
  /\ decoded.kind = "text"
  /\ decoded = tryDecodeLinear(allBits)

(***************************************************************************)
(* Properties of the sampling.                                             *)
(***************************************************************************)
\* C18: at every anchor s0 of the sweep (0, 4, ..., 124) the shift of each
\* ring of n sectors, s0 * n / 128, is a whole number of sectors and is the
\* same fraction s0 / 128 of a turn on all six rings; a rendering turned by
\* that fraction is then read back on all rings at that anchor.
C18_ProportionalShift ==
  /\ pc = "hypothesis" =>
       /\ s0 \in {4 * j : j \in 0..31}
       /\ \A ri \in 1..6 :
            /\ (s0 * SECTORS[ri]) % 128 = 0
            /\ RingShift(s0, ri) * 128 = s0 * SECTORS[ri]
  /\ (pc = "returned" /\ result.kind = "text") =>
       /\ s0 = imageData.rot
       /\ result.text = text

\* a rendering turned by 8 / 128 of a turn was read back at anchor 8, where
\* the rings of 128, 192 and 256 sectors are shifted by 8, 12 and 16
C18_Witness ==
  /\ pc = "returned"
  /\ result.kind = "text"
  /\ imageData.rot = 8
  /\ s0 = 8
  /\ <<RingShift(s0, 1), RingShift(s0, 2), RingShift(s0, 3)>> = <<8, 12, 16>>

\* the first bit after the header and the declared payload
TailStart(bits) == 88 + 8 * DeclaredPayloadLen(bits) + 1

\* the same stream with everything from bit from on set to 0, set to 1 or
\* flipped
WithTail(bits, from, how) ==
  [k \in 1..Len(bits) |->
     IF k < from THEN bits[k]
     ELSE IF how = "zeros" THEN 0
     ELSE IF how = "ones" THEN 1
     ELSE 1 - bits[k]]

InFlight == {c \in 1..Len(ui.calls) : ui.calls[c].stage # "done"}

\* C20: once every decodeImage call that was started has completed, the
\* text displayed is the result of decoding the image supplied last, the
\* one shown; and isDecoding is false only when no call is in flight.
C20_LatestResultShown ==
  /\ (ui.calls # <<>> /\ InFlight = {}) =>
       /\ ui.image = ui.calls[Len(ui.calls)].dataUrl
       /\ ui.decodedText = Displayed(DecodeOutcome[ui.image])
  /\ ~ui.isDecoding => InFlight = {}

====
